---- MODULE Spec2Model ----
(***************************************************************************)
(* Model of main.py: the 0/1 knapsack solvers branch_and_bound and         *)
(* brute_force, with their helpers compute_value, compute_cost and         *)
(* expand_branches.  One action per loop iteration, return or call.        *)
(***************************************************************************)
EXTENDS Integers, Sequences, FiniteSets, TLC

\* ------------------------------------------------------------------ bounds
MaxN == 2        \* longest option sequence drawn
MaxValue == 1    \* largest option value drawn
MaxCost == 2     \* largest option cost drawn
MaxBound == 2    \* largest bound drawn
NegValue == 1    \* option values go down to -NegValue
NegCost == 1     \* option costs go down to -NegCost
NegBound == 2    \* bounds go down to -NegBound
MaxLen == 4      \* longest assignment handed to expand_branches on its own

\* ------------------------------------------------------------------ data
\* Python's None in an assignment (an undecided entry); 0 and 1 are decided.
None == 2

Values == (0 - NegValue)..MaxValue
Costs == (0 - NegCost)..MaxCost
Bounds == (0 - NegBound)..MaxBound

SeqsUpTo(S, n) == UNION {[1..k -> S] : k \in 0..n}

Options == SeqsUpTo(Values \X Costs, MaxN)
ValidOptions == SeqsUpTo((0..MaxValue) \X (0..MaxCost), MaxN)
Assignments == SeqsUpTo({0, 1, None}, MaxLen)

\* ------------------------------------------------------------------ helpers
RECURSIVE SumIncluded(_, _, _, _)
SumIncluded(solution, options, field, i) ==
    IF i > Len(solution) THEN 0
    ELSE (IF solution[i] = 1 THEN options[i][field] ELSE 0)
         + SumIncluded(solution, options, field, i + 1)

\* counts every entry that is not 0, so unset entries too
compute_value_unset(solution, options) ==
    SumIncluded([i \in 1..Len(solution) |-> IF solution[i] # 0 THEN 1 ELSE 0], options, 1, 1)

compute_value(solution, options) == SumIncluded(solution, options, 1, 1)

\* sums the values where the costs are meant
compute_cost_of_values(solution, options) == SumIncluded(solution, options, 1, 1)

compute_cost(solution, options) == SumIncluded(solution, options, 2, 1)

HasNone(solution) == \E i \in 1..Len(solution) : solution[i] = None

\* list.index(None): the lowest index holding None
IndexOfNone(solution) ==
    CHOOSE i \in 1..Len(solution) :
        solution[i] = None /\ \A j \in 1..(i - 1) : solution[j] # None

expand_branches_swapped(solution) ==
    IF HasNone(solution)
    THEN [value \in 1..2 |-> [solution EXCEPT ![IndexOfNone(solution)] = 2 - value]]
    ELSE <<>>

expand_branches_last(solution) ==
    IF HasNone(solution)
    THEN LET last == CHOOSE i \in 1..Len(solution) :
                         solution[i] = None /\ \A j \in (i + 1)..Len(solution) : solution[j] # None
         IN [value \in 1..2 |-> [solution EXCEPT ![last] = value - 1]]
    ELSE <<>>

\* the copies are appended without the decision written into them
expand_branches_undecided(solution) ==
    IF HasNone(solution)
    THEN [value \in 1..2 |-> solution]
    ELSE <<>>

expand_branches(solution) ==
    IF HasNone(solution)
    THEN [value \in 1..2 |-> [solution EXCEPT ![IndexOfNone(solution)] = value - 1]]
    ELSE <<>>

\* line 23: "if a valid branch"
FeasibleStrict(cost, b) == cost < b
FeasibleEqual(cost, b) == cost = b
FeasibleAlways(cost, b) == TRUE

Feasible(cost, b) == cost <= b

\* line 26: the acceptance test of branch_and_bound (best is a triple)
AcceptNoTieBreak(value, cost, best) == value > best[2]
AcceptTies(value, cost, best) ==
    value > best[2] \/ (value = best[2] /\ cost <= best[3])

Accept(value, cost, best) ==
    value > best[2] \/ (value = best[2] /\ cost < best[3])

\* line 56: the acceptance test of brute_force
BFAcceptNoTieBreak(value, cost, best, b) == cost <= b /\ value > best[2]

BFAccept(value, cost, best, b) ==
    (cost <= b /\ value > best[2]) \/ (value = best[2] /\ cost < best[3])

\* lines 11 and 46: the trivial solution
TrivialSolution(options) == <<[i \in 1..Len(options) |-> 0], 0, 0>>

\* line 38: unexpanded nodes become 0
ReturnAssignmentRaw(assignment) == assignment

ReturnAssignment(assignment) ==
    [i \in 1..Len(assignment) |-> IF assignment[i] # None THEN assignment[i] ELSE 0]

RECURSIVE Pow2(_)
Pow2(n) == IF n = 0 THEN 1 ELSE 2 * Pow2(n - 1)

\* itertools.product(range(2), repeat=n): the k-th tuple (k from 0), the last
\* position varying fastest
Product(k, n) == [i \in 1..n |-> (k \div Pow2(n - i)) % 2]

\* no list object is referenced
NoRefs == [solution |-> 0, branches |-> <<>>, best |-> <<0, 0, 0>>]

NoResult == [status |-> "none", assignment |-> <<>>, value |-> 0, cost |-> 0]

\* lines 35-38 and 62-64: the assertion, then the returned triple
Outcome(assignment, value, cost, b) ==
    IF cost <= b
    THEN [status |-> "returned", assignment |-> assignment, value |-> value, cost |-> cost]
    ELSE [status |-> "AssertionError", assignment |-> <<>>, value |-> 0, cost |-> 0]

\* ------------------------------------------------------------------ state
VARIABLES
    pc,            \* where the run is: "bb_loop", "bb_returned", "bf_loop", "done", "expand_call", "expand_returned"
    options,       \* the caller's option sequence
    bound,         \* the caller's bound
    solution,      \* branch_and_bound: the assignment popped last
    branches,      \* branch_and_bound: the frontier
    best_solution, \* branch_and_bound: (assignment, value, cost)
    bb_result,     \* outcome of branch_and_bound
    bf_next,       \* brute_force: number of tuples of the product consumed
    bf_best_solution, \* brute_force: (assignment, value, cost)
    bf_result,     \* outcome of brute_force
    last_bound,    \* bound of the previous branch_and_bound call, or bound itself
    last_result,   \* outcome of the previous branch_and_bound call
    pops,          \* branch_and_bound: number of assignments popped so far
    heap,          \* the list objects, by identity (used where aliasing matters)
    refs           \* branch_and_bound's locals as references into heap

vars == <<pc, options, bound, solution, branches, best_solution, bb_result,
          bf_next, bf_best_solution, bf_result, last_bound, last_result,
          pops, heap, refs>>

\* lines 10-12: branch_and_bound up to its loop
CallBB(o, b) ==
    /\ pc = "bb_loop"
    /\ options = o
    /\ bound = b
    /\ solution = [i \in 1..Len(o) |-> None]
    /\ best_solution = TrivialSolution(o)
    /\ branches = expand_branches([i \in 1..Len(o) |-> None])
    /\ bb_result = NoResult
    /\ bf_next = 0
    /\ bf_best_solution = TrivialSolution(o)
    /\ bf_result = NoResult
    /\ pops = 0
    /\ heap = <<>>
    /\ refs = NoRefs

InitWith(OptionSet, BoundSet) ==
    \E o \in OptionSet, b \in BoundSet :
        /\ CallBB(o, b)
        /\ last_bound = b
        /\ last_result = NoResult

Init == InitWith(Options, Bounds)

InitValid == InitWith(ValidOptions, 0..MaxBound)

\* lines 15-32: one iteration of the while loop
BBLoopBody ==
    /\ pc = "bb_loop"
    /\ branches # <<>>
    /\ LET s == Head(branches)
           cost == compute_cost(s, options)
           value == compute_value(s, options)
       IN /\ solution' = s
          /\ IF Feasible(cost, bound)
             THEN /\ best_solution' = IF Accept(value, cost, best_solution)
                                      THEN <<s, value, cost>>
                                      ELSE best_solution
                  /\ branches' = Tail(branches) \o expand_branches(s)
             ELSE /\ best_solution' = best_solution
                  /\ branches' = Tail(branches)
    /\ pops' = pops + 1
    /\ UNCHANGED <<pc, options, bound, bb_result, bf_next, bf_best_solution,
                   bf_result, last_bound, last_result,
                   heap, refs>>

\* lines 15, 35-38: the loop ends, the assertion, the return
BBReturn ==
    /\ pc = "bb_loop"
    /\ branches = <<>>
    /\ bb_result' = Outcome(ReturnAssignment(best_solution[1]),
                            best_solution[2], best_solution[3], bound)
    /\ pc' = "bb_returned"
    /\ UNCHANGED <<options, bound, solution, branches, best_solution, bf_next,
                   bf_best_solution, bf_result, last_bound, last_result,
                   pops, heap, refs>>

\* lines 46-49: brute_force up to its loop
CallBruteForce ==
    /\ pc = "bb_returned"
    /\ bf_best_solution' = TrivialSolution(options)
    /\ bf_next' = 0
    /\ pc' = "bf_loop"
    /\ UNCHANGED <<options, bound, solution, branches, best_solution, bb_result,
                   bf_result, last_bound, last_result,
                   pops, heap, refs>>

\* lines 49-59: one iteration of the for loop
BFLoopBody ==
    /\ pc = "bf_loop"
    /\ bf_next < Pow2(Len(options))
    /\ LET s == Product(bf_next, Len(options))
           cost == compute_cost(s, options)
           value == compute_value(s, options)
       IN bf_best_solution' = IF BFAccept(value, cost, bf_best_solution, bound)
                              THEN <<s, value, cost>>
                              ELSE bf_best_solution
    /\ bf_next' = bf_next + 1
    /\ UNCHANGED <<pc, options, bound, solution, branches, best_solution,
                   bb_result, bf_result, last_bound, last_result,
                   pops, heap, refs>>

\* lines 49, 62-64: the product is exhausted, the assertion, the return
BFReturn ==
    /\ pc = "bf_loop"
    /\ bf_next = Pow2(Len(options))
    /\ bf_result' = Outcome(bf_best_solution[1], bf_best_solution[2],
                            bf_best_solution[3], bound)
    /\ pc' = "done"
    /\ UNCHANGED <<options, bound, solution, branches, best_solution, bb_result,
                   bf_next, bf_best_solution, last_bound, last_result,
                   pops, heap, refs>>

Next == BBLoopBody \/ BBReturn \/ CallBruteForce \/ BFLoopBody \/ BFReturn

Spec == Init /\ [][Next]_vars

SpecValid == InitValid /\ [][Next]_vars

\* branch_and_bound on its own
NextBB == BBLoopBody \/ BBReturn

SpecBB == Init /\ [][NextBB]_vars

\* a second call of branch_and_bound on the same options with a larger bound
\* (lines 10-12 again), keeping the outcome of the call before it
Rebound(b) ==
    /\ pc = "bb_returned"
    /\ b > bound
    /\ last_bound' = bound
    /\ last_result' = bb_result
    /\ pc' = "bb_loop"
    /\ bound' = b
    /\ solution' = [i \in 1..Len(options) |-> None]
    /\ best_solution' = TrivialSolution(options)
    /\ branches' = expand_branches([i \in 1..Len(options) |-> None])
    /\ bb_result' = NoResult
    /\ pops' = 0
    /\ UNCHANGED <<options, bf_next, bf_best_solution, bf_result,
                   heap, refs>>

InitRebound == InitWith(ValidOptions, Bounds)

NextRebound == Next \/ \E b \in Bounds : Rebound(b)

SpecRebound == InitRebound /\ [][NextRebound]_vars

\* branch_and_bound called again on the same options and bound (lines 10-12),
\* this time to be run with its frontier consumed in an arbitrary order; the
\* outcome of the first-in-first-out run is kept in last_result
CallBBAnyOrder ==
    /\ pc = "bb_returned"
    /\ last_bound' = bound
    /\ last_result' = bb_result
    /\ pc' = "any_loop"
    /\ solution' = [i \in 1..Len(options) |-> None]
    /\ best_solution' = TrivialSolution(options)
    /\ branches' = expand_branches([i \in 1..Len(options) |-> None])
    /\ bb_result' = NoResult
    /\ pops' = 0
    /\ UNCHANGED <<options, bound, bf_next, bf_best_solution, bf_result, heap, refs>>

RemoveAt(s, k) == [i \in 1..(Len(s) - 1) |-> IF i < k THEN s[i] ELSE s[i + 1]]

Reversed(s) == [i \in 1..Len(s) |-> s[Len(s) + 1 - i]]

\* lines 15-32 with branches.pop(k) for any k in place of branches.pop(0), and
\* the two children in either order
BBAnyOrderLoopBody ==
    /\ pc = "any_loop"
    /\ branches # <<>>
    /\ \E k \in 1..Len(branches), included_first \in BOOLEAN :
         LET s == branches[k]
             cost == compute_cost(s, options)
             value == compute_value(s, options)
             children == IF included_first THEN Reversed(expand_branches(s))
                                           ELSE expand_branches(s)
         IN /\ solution' = s
            /\ IF Feasible(cost, bound)
               THEN /\ best_solution' = IF Accept(value, cost, best_solution)
                                        THEN <<s, value, cost>>
                                        ELSE best_solution
                    /\ branches' = RemoveAt(branches, k) \o children
               ELSE /\ best_solution' = best_solution
                    /\ branches' = RemoveAt(branches, k)
    /\ pops' = pops + 1
    /\ UNCHANGED <<pc, options, bound, bb_result, bf_next, bf_best_solution,
                   bf_result, last_bound, last_result, heap, refs>>

\* lines 15, 35-38 at the end of the arbitrary-order run
BBAnyOrderReturn ==
    /\ pc = "any_loop"
    /\ branches = <<>>
    /\ bb_result' = Outcome(ReturnAssignment(best_solution[1]),
                            best_solution[2], best_solution[3], bound)
    /\ pc' = "any_returned"
    /\ UNCHANGED <<options, bound, solution, branches, best_solution, bf_next,
                   bf_best_solution, bf_result, last_bound, last_result,
                   pops, heap, refs>>

NextAnyOrder ==
    BBLoopBody \/ BBReturn \/ CallBBAnyOrder \/ BBAnyOrderLoopBody \/ BBAnyOrderReturn

SpecAnyOrder == Init /\ [][NextAnyOrder]_vars

\* ------------------------------------------------------------------ lists as objects
\* The same run of branch_and_bound with every list an object of heap, named by
\* its index, so that two references to one list can be told from two lists.

\* next_node = solution, without the copy
AliasList(h, id) == <<h, id>>

\* line 88: solution[:] is a new list with the same entries
CopyList(h, id) == <<Append(h, h[id]), Len(h) + 1>>

\* line 89: next_node[next_node_index] = value
StoreItem(h, id, index, value) == [h EXCEPT ![id] = [@ EXCEPT ![index] = value]]

\* lines 75-92: the heap after the call, and the references returned
expand_branches_refs(h, id) ==
    IF HasNone(h[id])
    THEN LET next_node_index == IndexOfNone(h[id])
             c0 == CopyList(h, id)
             h0 == StoreItem(c0[1], c0[2], next_node_index, 0)
             c1 == CopyList(h0, id)
             h1 == StoreItem(c1[1], c1[2], next_node_index, 1)
         IN <<h1, <<c0[2], c1[2]>>>>
    ELSE <<h, <<>>>>

\* lines 10-12: solution is object 1, the all-excluded list is object 2
InitRefs ==
    \E o \in ValidOptions, b \in Bounds :
        LET h == <<[i \in 1..Len(o) |-> None], [i \in 1..Len(o) |-> 0]>>
            e == expand_branches_refs(h, 1)
        IN /\ pc = "refs_loop"
           /\ options = o
           /\ bound = b
           /\ heap = e[1]
           /\ refs = [solution |-> 1, branches |-> e[2], best |-> <<2, 0, 0>>]
           /\ solution = [i \in 1..Len(o) |-> None]
           /\ best_solution = TrivialSolution(o)
           /\ branches = <<>>
           /\ bb_result = NoResult
           /\ bf_next = 0
           /\ bf_best_solution = TrivialSolution(o)
           /\ bf_result = NoResult
           /\ pops = 0
           /\ last_bound = b
           /\ last_result = NoResult

\* lines 15-32 on references
BBRefsLoopBody ==
    /\ pc = "refs_loop"
    /\ refs.branches # <<>>
    /\ LET id == Head(refs.branches)
           cost == compute_cost(heap[id], options)
           value == compute_value(heap[id], options)
           e == expand_branches_refs(heap, id)
       IN IF Feasible(cost, bound)
          THEN /\ heap' = e[1]
               /\ refs' = [solution |-> id,
                           branches |-> Tail(refs.branches) \o e[2],
                           best |-> IF Accept(value, cost, refs.best)
                                    THEN <<id, value, cost>>
                                    ELSE refs.best]
          ELSE /\ heap' = heap
               /\ refs' = [refs EXCEPT !.solution = id,
                                       !.branches = Tail(refs.branches)]
    /\ pops' = pops + 1
    /\ UNCHANGED <<pc, options, bound, solution, branches, best_solution,
                   bb_result, bf_next, bf_best_solution, bf_result,
                   last_bound, last_result>>

\* lines 15, 35-38 on references: the returned list is a new one
BBRefsReturn ==
    /\ pc = "refs_loop"
    /\ refs.branches = <<>>
    /\ bb_result' = Outcome(ReturnAssignment(heap[refs.best[1]]),
                            refs.best[2], refs.best[3], bound)
    /\ pc' = "bb_returned"
    /\ UNCHANGED <<options, bound, solution, branches, best_solution, bf_next,
                   bf_best_solution, bf_result, last_bound, last_result,
                   pops, heap, refs>>

NextRefs == BBRefsLoopBody \/ BBRefsReturn \/ CallBruteForce \/ BFLoopBody \/ BFReturn

SpecRefs == InitRefs /\ [][NextRefs]_vars

\* expand_branches called on its own with an arbitrary assignment
InitExpand ==
    /\ pc = "expand_call"
    /\ solution \in Assignments
    /\ branches = <<>>
    /\ options = <<>>
    /\ bound = 0
    /\ best_solution = TrivialSolution(<<>>)
    /\ bb_result = NoResult
    /\ bf_next = 0
    /\ bf_best_solution = TrivialSolution(<<>>)
    /\ bf_result = NoResult
    /\ last_bound = 0
    /\ last_result = NoResult
    /\ pops = 0
    /\ heap = <<>>
    /\ refs = NoRefs

\* lines 75-92
ExpandCall ==
    /\ pc = "expand_call"
    /\ branches' = expand_branches(solution)
    /\ pc' = "expand_returned"
    /\ UNCHANGED <<options, bound, solution, best_solution, bb_result, bf_next,
                   bf_best_solution, bf_result, last_bound, last_result,
                   pops, heap, refs>>

NextExpand == ExpandCall

SpecExpand == InitExpand /\ [][NextExpand]_vars

\* ------------------------------------------------------------------ reference notions
\* Totals of a set of option indices, and the optimum over all subsets.
RECURSIVE Total(_, _)
Total(S, field) ==
    IF S = {} THEN 0
    ELSE LET i == CHOOSE j \in S : TRUE
         IN options[i][field] + Total(S \ {i}, field)

FeasibleSubsets == {S \in SUBSET (1..Len(options)) : Total(S, 2) <= bound}

IsMaxFeasibleValue(v) ==
    /\ \E S \in FeasibleSubsets : Total(S, 1) = v
    /\ \A S \in FeasibleSubsets : Total(S, 1) <= v

IsMinCostAtValue(c, v) ==
    /\ \E S \in FeasibleSubsets : Total(S, 1) = v /\ Total(S, 2) = c
    /\ \A S \in FeasibleSubsets : Total(S, 1) = v => Total(S, 2) >= c

NonNegCosts == \A i \in 1..Len(options) : options[i][2] >= 0

BBFinished == bb_result.status # "none"

BFFinished == bf_result.status # "none"

SamePair(r1, r2) ==
    /\ r1.status = "returned"
    /\ r2.status = "returned"
    /\ r1.value = r2.value
    /\ r1.cost = r2.cost

\* ------------------------------------------------------------------ claims

C2_ValueIsMaximum ==
    BBFinished =>
        /\ bb_result.status = "returned"
        /\ IsMaxFeasibleValue(bb_result.value)

\* C2 witness: both options have a positive value but do not fit together,
\* and the second one alone was returned.
C2_Witness ==
    /\ BBFinished
    /\ bb_result.status = "returned"
    /\ bb_result.value > 0
    /\ FeasibleSubsets # SUBSET (1..Len(options))
    /\ bb_result.assignment = <<0, 1>>
    /\ options[1][1] > 0

\* C3: for non-negative values and costs and bound >= 0, the cost returned by
\* branch_and_bound, and the cost returned by brute_force, is the minimum total
\* cost among the subsets with cost <= bound that reach the maximum value.
C3_CostIsMinimumAtMaximum ==
    /\ BBFinished =>
          /\ bb_result.status = "returned"
          /\ \E v \in {bb_result.value} :
                 IsMaxFeasibleValue(v) /\ IsMinCostAtValue(bb_result.cost, v)
    /\ BFFinished =>
          /\ bf_result.status = "returned"
          /\ \E v \in {bf_result.value} :
                 IsMaxFeasibleValue(v) /\ IsMinCostAtValue(bf_result.cost, v)

\* C3 witness: both solvers finished where two subsets that fit reach the
\* maximum value at different costs, so the tie-break decides.
C3_Witness ==
    /\ pc = "done"
    /\ bb_result.cost > 0
    /\ \E S, T \in FeasibleSubsets :
           /\ Total(S, 1) = bb_result.value
           /\ Total(T, 1) = bb_result.value
           /\ Total(S, 2) < Total(T, 2)

\* C4: for valid inputs both solvers return normally (no assertion failure)
\* and the returned cost is <= bound.
C4_ReturnsFeasible ==
    /\ BBFinished => (bb_result.status = "returned" /\ bb_result.cost <= bound)
    /\ BFFinished => (bf_result.status = "returned" /\ bf_result.cost <= bound)

\* C4 witness: both returned a solution that uses the whole bound while some
\* subset exceeds it.
C4_Witness ==
    /\ pc = "done"
    /\ bb_result.status = "returned"
    /\ bf_result.status = "returned"
    /\ bound > 0
    /\ bb_result.cost = bound
    /\ bf_result.cost = bound
    /\ FeasibleSubsets # SUBSET (1..Len(options))

\* C5 as stated: whenever all costs are non-negative, for every bound (also a
\* negative one), the best-found solution of branch_and_bound has cost <= bound
\* from initialisation to return, and the assertion never fails.
C5_BestAlwaysFeasible ==
    NonNegCosts =>
        /\ best_solution[3] <= bound
        /\ bb_result.status # "AssertionError"

\* C6: for fixed options and two bounds b1 <= b2, the value branch_and_bound
\* returns for b2 is >= the value it returns for b1.
C6_MonotoneInBound ==
    (last_result.status = "returned" /\ bb_result.status = "returned") =>
        /\ last_bound <= bound
        /\ bb_result.value >= last_result.value

\* C6 witness: a second call with a larger bound returned a strictly larger value.
C6_Witness ==
    /\ last_result.status = "returned"
    /\ bb_result.status = "returned"
    /\ last_bound < bound
    /\ last_result.value > 0
    /\ bb_result.value > last_result.value

\* C7 as stated: whenever every single option's cost exceeds bound (here with
\* at least one option), branch_and_bound returns the all-excluded assignment
\* with value 0 and cost 0.
C7_NothingFitsGivesTrivial ==
    (BBFinished /\ Len(options) >= 1 /\ \A i \in 1..Len(options) : options[i][2] > bound) =>
        /\ bb_result.status = "returned"
        /\ bb_result.assignment = [i \in 1..Len(options) |-> 0]
        /\ bb_result.value = 0
        /\ bb_result.cost = 0

\* C8: the feasibility test is inclusive: for a single option (v, c) with
\* v > 0 and c > 0, branch_and_bound returns ([1], v, c) when bound >= c and
\* ([0], 0, 0) when 0 <= bound < c.
C8_InclusiveFeasibility ==
    (BBFinished /\ Len(options) = 1 /\ bound >= 0
        /\ options[1][1] > 0 /\ options[1][2] > 0) =>
        IF bound >= options[1][2]
        THEN bb_result = [status |-> "returned", assignment |-> <<1>>,
                          value |-> options[1][1], cost |-> options[1][2]]
        ELSE bb_result = [status |-> "returned", assignment |-> <<0>>,
                          value |-> 0, cost |-> 0]

\* C8 witness: a single option whose cost equals the bound was included.
C8_Witness ==
    /\ BBFinished
    /\ Len(options) = 1
    /\ options[1][1] > 0
    /\ options[1][2] > 0
    /\ bound = options[1][2]
    /\ bb_result.assignment = <<1>>

\* C9: expand_branches of an assignment with an unset entry returns exactly two
\* children, equal to the input except at the lowest unset index, which is 0 in
\* the first and 1 in the second; of a complete assignment it returns the empty
\* list.
C9_ExpandBranches ==
    pc = "expand_returned" =>
        IF \E i \in 1..Len(solution) : solution[i] = None
        THEN /\ Len(branches) = 2
             /\ \E k \in 1..Len(solution) :
                    /\ solution[k] = None
                    /\ \A j \in 1..(k - 1) : solution[j] # None
                    /\ \A c \in 1..2 :
                           /\ Len(branches[c]) = Len(solution)
                           /\ branches[c][k] = c - 1
                           /\ \A j \in 1..Len(solution) :
                                  j # k => branches[c][j] = solution[j]
        ELSE branches = <<>>

\* C9 witness: an assignment with two unset entries and a decided entry
\* between them was expanded.
C9_Witness ==
    /\ pc = "expand_returned"
    /\ solution = <<1, None, 0, None>>
    /\ Len(branches) = 2

\* C10: the assignment branch_and_bound returns has length n, holds only 0 and
\* 1, and is the final best-found assignment with every unset entry replaced by
\* 0 and every decided entry kept.
C10_ReturnedAssignment ==
    bb_result.status = "returned" =>
        /\ Len(bb_result.assignment) = Len(options)
        /\ \A i \in 1..Len(options) :
               /\ bb_result.assignment[i] \in {0, 1}
               /\ bb_result.assignment[i] =
                      IF best_solution[1][i] \in {0, 1} THEN best_solution[1][i] ELSE 0

\* C10 witness: branch_and_bound returned while its best-found assignment
\* still had an unset entry after an included one.
C10_Witness ==
    /\ bb_result.status = "returned"
    /\ Len(options) = 2
    /\ best_solution[1] = <<1, None>>

\* ------------------------------------------------------------------ claims, second part

\* Sum of a field over the options an assignment includes (entry 1).
RECURSIVE IncludedUpTo(_, _, _)
IncludedUpTo(assignment, field, k) ==
    IF k = 0 THEN 0
    ELSE IncludedUpTo(assignment, field, k - 1)
         + (IF assignment[k] = 1 THEN options[k][field] ELSE 0)

IncludedTotal(assignment, field) == IncludedUpTo(assignment, field, Len(assignment))

Root == [i \in 1..Len(options) |-> None]

NumDecided(s) == Cardinality({i \in 1..Len(s) : s[i] # None})

HasDecided(s) == \E i \in 1..Len(s) : s[i] # None

\* The ancestors of s are s cut back to its first k entries, for every k below
\* the number of its decided entries; the cost of that ancestor is the cost
\* included among the first k entries.
AncestorsFeasible(s) ==
    \A k \in 1..(Len(s) - 1) : s[k + 1] # None => IncludedUpTo(s, 2, k) <= bound

InFrontier(s) == \E j \in 1..Len(branches) : branches[j] = s

ChildOf(s, v) == [i \in 1..Len(s) |-> IF i = NumDecided(s) + 1 THEN v ELSE s[i]]

PrefixForm(s) == \A i \in 1..(Len(s) - 1) : s[i] = None => s[i + 1] = None

\* C11: a popped assignment has its children appended to the back of the
\* frontier exactly when its cost is <= bound, accepted or not; so every
\* assignment in the frontier, and every assignment evaluated, has only
\* ancestors of cost <= bound.
C11_ExpandIffFeasible ==
    /\ \A j \in 1..Len(branches) : AncestorsFeasible(branches[j])
    /\ (pc = "bb_loop" /\ solution # Root) =>
          /\ AncestorsFeasible(solution)
          /\ HasNone(solution) =>
                IF IncludedTotal(solution, 2) <= bound
                THEN /\ Len(branches) >= 2
                     /\ branches[Len(branches) - 1] = ChildOf(solution, 0)
                     /\ branches[Len(branches)] = ChildOf(solution, 1)
                ELSE /\ ~InFrontier(ChildOf(solution, 0))
                     /\ ~InFrontier(ChildOf(solution, 1))

\* C11 witness: an assignment that includes an option was popped, was within
\* the bound, was not accepted, and its children are at the back of the frontier.
C11_Witness ==
    /\ pc = "bb_loop"
    /\ solution = <<1, None>>
    /\ IncludedTotal(solution, 2) <= bound
    /\ best_solution[1] # solution
    /\ branches[Len(branches)] = <<1, 1>>

\* C12: best-found is updated monotonically: over every step of the loop its
\* value never decreases, and when it changes either the value grows or the
\* value is the same and the cost shrinks; a tie in both never replaces it.
C12_BestMonotone ==
    [][pc = "bb_loop" =>
          \/ best_solution' = best_solution
          \/ best_solution'[2] > best_solution[2]
          \/ (best_solution'[2] = best_solution[2] /\ best_solution'[3] < best_solution[3])]_vars

\* C12 witness: the second option alone has just replaced the first alone, at
\* the same value and a lower cost.
C12_Witness ==
    /\ pc = "bb_loop"
    /\ solution = <<0, 1>>
    /\ best_solution[1] = solution
    /\ options[1][1] = options[2][1]
    /\ options[1][1] > 0
    /\ options[1][2] > options[2][2]
    /\ options[1][2] <= bound
    /\ options[1][2] >= 0

\* C13: in every state of branch_and_bound and of brute_force, and in what they
\* return, the recorded value and cost are the sums of the values and costs of
\* exactly the options whose entry in the recorded assignment is 1.
C13_RecordedSums ==
    /\ best_solution[2] = IncludedTotal(best_solution[1], 1)
    /\ best_solution[3] = IncludedTotal(best_solution[1], 2)
    /\ bf_best_solution[2] = IncludedTotal(bf_best_solution[1], 1)
    /\ bf_best_solution[3] = IncludedTotal(bf_best_solution[1], 2)
    /\ bb_result.status = "returned" =>
          /\ bb_result.value = IncludedTotal(bb_result.assignment, 1)
          /\ bb_result.cost = IncludedTotal(bb_result.assignment, 2)
    /\ bf_result.status = "returned" =>
          /\ bf_result.value = IncludedTotal(bf_result.assignment, 1)
          /\ bf_result.cost = IncludedTotal(bf_result.assignment, 2)

\* C13 witness: both solvers returned a solution of positive value and cost,
\* and the best-found of branch_and_bound still has an unset entry.
C13_Witness ==
    /\ pc = "done"
    /\ bb_result.status = "returned"
    /\ bf_result.status = "returned"
    /\ best_solution[1] = <<1, None>>
    /\ best_solution[2] > 0
    /\ best_solution[3] > 0
    /\ bf_best_solution[2] > 0

\* C15 as stated (its last part): for every option sequence and bound,
\* brute_force never records an assignment of cost > bound as best-found, not
\* even for a while.
C15_BFNeverRecordsInfeasible ==
    bf_best_solution # TrivialSolution(options) => bf_best_solution[3] <= bound

\* C17: every assignment in the frontier, and the best-found assignment, is a
\* run of decided entries followed only by unset ones; every frontier assignment
\* has a decided entry, and best-found is the initial all-excluded assignment or
\* an assignment with a decided entry: the root is never in the frontier and
\* never recorded.
C17_DecidedPrefix ==
    /\ \A j \in 1..Len(branches) :
           /\ PrefixForm(branches[j])
           /\ Len(branches[j]) = Len(options)
           /\ HasDecided(branches[j])
    /\ PrefixForm(best_solution[1])
    /\ \/ best_solution = TrivialSolution(options)
       \/ HasDecided(best_solution[1])
    /\ (pc = "bb_loop" /\ solution # Root) =>
           (PrefixForm(solution) /\ HasDecided(solution))

\* C17 witness: best-found is a partial assignment and the frontier holds only
\* complete ones.
C17_Witness ==
    /\ pc = "bb_loop"
    /\ best_solution[1] = <<1, None>>
    /\ Len(branches) = 3
    /\ branches[1] = <<0, 1>>

\* C16: the loop of branch_and_bound ends: the assignments popped so far and
\* those waiting in the frontier are distinct assignments other than the root,
\* never more than 2^(n+1) - 2 together, each waiting one with as many decided
\* entries as its depth; so after at most 2^(n+1) - 2 pops the frontier is
\* empty and the only step left is the return.
C16_LoopTerminates ==
    /\ pops + Len(branches) <= Pow2(Len(options) + 1) - 2
    /\ \A i, j \in 1..Len(branches) : i # j => branches[i] # branches[j]
    /\ \A j \in 1..Len(branches) : branches[j] # solution
    /\ (pc = "bb_loop" /\ pops = Pow2(Len(options) + 1) - 2) => branches = <<>>
    /\ (pc = "bb_loop" /\ pops > 0 /\ Len(branches) > 0) =>
           NumDecided(branches[Len(branches)]) >= NumDecided(solution)

\* C16 witness: branch_and_bound returned after popping every assignment of
\* the tree of two options, 2^3 - 2 = 6 of them.
C16_Witness ==
    /\ pc = "bb_returned"
    /\ Len(options) = 2
    /\ pops = 6
    /\ branches = <<>>

\* C14: the (value, cost) pair branch_and_bound returns does not depend on the
\* order of exploration: a run that pops the frontier in any order and appends
\* the two children in either order ends as the first-in-first-out run does,
\* with the same pair.
C14_OrderIndependent ==
    pc = "any_returned" =>
        /\ bb_result.status = last_result.status
        /\ bb_result.value = last_result.value
        /\ bb_result.cost = last_result.cost

\* C14 witness: a run in another order returned the same positive value and
\* cost as the first-in-first-out run, with a different assignment.
C14_Witness ==
    /\ pc = "any_returned"
    /\ bb_result.status = "returned"
    /\ last_result.status = "returned"
    /\ bb_result.value > 0
    /\ bb_result.value = last_result.value
    /\ bb_result.cost = last_result.cost
    /\ bb_result.assignment # last_result.assignment

\* C18: expanding an assignment leaves it unchanged: no step of branch_and_bound
\* or brute_force alters a list that already exists (so neither the argument of
\* expand_branches nor the assignment recorded in best-found is ever modified),
\* the references appended to the frontier are to lists made by that step, and
\* the caller's option sequence stays as it was.
C18_NoListModified ==
    [][/\ Len(heap') >= Len(heap)
       /\ \A id \in 1..Len(heap) : heap'[id] = heap[id]
       /\ \A j \in 1..Len(refs'.branches) :
              (j >= Len(refs.branches) /\ refs' # refs) => refs'.branches[j] > Len(heap)
       /\ options' = options]_vars

\* C18 witness: best-found refers to a partial assignment that was expanded
\* afterwards (its child exists as another list) and still has its unset entry.
C18_Witness ==
    /\ pc = "bb_returned"
    /\ Len(heap) >= 2
    /\ refs.best[1] > 2
    /\ heap[refs.best[1]] = <<1, None>>
    /\ \E id \in 1..Len(heap) : id # refs.best[1] /\ heap[id] = <<1, 1>>

====
